---- MODULE Spec2Model ----
(***************************************************************************)
(* Thumbnail cache (ThumbnailCache over localStorage), thumbnail           *)
(* generation (ThumbnailGenerator) and the asset grid (ToolGrid).          *)
(*                                                                         *)
(* localStorage is an ordered list of (key, value) pairs: key(i) walks it  *)
(* by index, and removeItem closes the gap, so the indices of the later    *)
(* keys shift down by one.  A stored value is a string; the model keeps    *)
(* the four kinds of string the code tells apart: the JSON text of a       *)
(* CacheEntry, the JSON text "null", text that JSON.parse rejects, and     *)
(* the empty string.                                                       *)
(***************************************************************************)
EXTENDS Integers, Sequences, FiniteSets, TLC

VARIABLES storage, now, last, ops, budget, written, grid, canvas, scene, server

vars == <<storage, now, last, ops, budget, written, grid, canvas, scene,
         server>>

-----------------------------------------------------------------------------
(* Program constants *)

CACHE_PREFIX == <<"thumbnail", "_">>
MAX_CACHE_SIZE == 50 * 1024 * 1024
MAX_CACHE_ITEMS == 100
maxAge == 7 * 24 * 60 * 60 * 1000
RetryCleanupCount == 10
CanvasSize == 400
ReadyDelay == 100
CaptureDelay == 200
Precision == 53

(* Bounds of the model *)

MaxOps == 3
MaxFullOps == 2
MaxCorruptOps == 2

-----------------------------------------------------------------------------
(* Strings, payloads and stored values *)

\* A data URL: its content (tag) and its length in characters.
TinyUrl == [tag |-> "png-a", len |-> 3]
OtherUrl == [tag |-> "png-b", len |-> 5]
HalfMiBUrl == [tag |-> "png-h", len |-> 512 * 1024]
HugeUrl == [tag |-> "png-x", len |-> MAX_CACHE_SIZE + 1]
NoUrl == [tag |-> "", len |-> 0]

\* JS null as the result of get.
NULL == [tag |-> "null", len |-> 0 - 1]

Min(a, b) == IF a < b THEN a ELSE b
Max(a, b) == IF a > b THEN a ELSE b

\* Math.ceil(n * 0.2); the double product rounds to the exact fifth for
\* every n the model reaches (checked for n <= 200).
Ceil02(n) == (n + 4) \div 5

KeyOf(modelId) == CACHE_PREFIX \o <<modelId>>

StartsWith(key, prefix) ==
    /\ Len(key) >= Len(prefix)
    /\ SubSeq(key, 1, Len(prefix)) = prefix

\* JSON.stringify(entry) for entry = {dataUrl, timestamp, size}.
JSONstringify(dataUrl, timestamp, size) ==
    [kind |-> "json", dataUrl |-> dataUrl, timestamp |-> timestamp, size |-> size]

GarbageText == [kind |-> "garbage", dataUrl |-> NoUrl, timestamp |-> 0, size |-> 0]
EmptyText == [kind |-> "empty", dataUrl |-> NoUrl, timestamp |-> 0, size |-> 0]
NullText == [kind |-> "null", dataUrl |-> NoUrl, timestamp |-> 0, size |-> 0]

\* `!item`: the empty string is falsy.
Falsy(item) == item.kind = "empty"

\* JSON.parse(item) throws a SyntaxError.
JSONparseThrows(item) == item.kind \in {"garbage", "empty"}

\* JSON.parse(item) when it does not throw: the entry, or null.
JSONparse(item) ==
    [isNull |-> item.kind = "null", dataUrl |-> item.dataUrl,
     timestamp |-> item.timestamp, size |-> item.size]

-----------------------------------------------------------------------------
(* localStorage *)

KeysOf(store) == {store[i].key : i \in 1..Len(store)}

IndexOf(store, key) == CHOOSE i \in 1..Len(store) : store[i].key = key

HasKey(store, key) == key \in KeysOf(store)

\* localStorage.getItem(key) for a key that is present.
GetItem(store, key) == store[IndexOf(store, key)].value

\* A removeItem written as splice(indexOf(key), 1): a missing key (index -1)
\* takes the last item away.
RemoveItemSplice(store, key) ==
    IF store = <<>> THEN store
    ELSE IF ~HasKey(store, key) THEN SubSeq(store, 1, Len(store) - 1)
    ELSE SelectSeq(store, LAMBDA e : e.key # key)

\* localStorage.removeItem(key): the later keys move down by one index.
RemoveItem(store, key) ==
    IF ~HasKey(store, key) THEN store
    ELSE LET i == IndexOf(store, key)
         IN SubSeq(store, 1, i - 1) \o SubSeq(store, i + 1, Len(store))

\* localStorage.setItem(key, value) when the write is accepted: a present key
\* keeps its place in the key order; where a new key goes is up to the user
\* agent, and first tells whether it is enumerated first or last.
SetItem(store, key, value, first) ==
    IF HasKey(store, key)
    THEN [store EXCEPT ![IndexOf(store, key)].value = value]
    ELSE IF first THEN <<[key |-> key, value |-> value]>> \o store
    ELSE Append(store, [key |-> key, value |-> value])

-----------------------------------------------------------------------------
(* ThumbnailCache *)

\* One pass of the for loop of getAllEntries: the test i < localStorage.length
\* and, when it holds, the body and i++.  st.i is the 1-based index.
GetAllEntriesStep(st) ==
    IF st.i > Len(st.store) THEN st
    ELSE LET key == st.store[st.i].key
             item == st.store[st.i].value
         IN IF ~StartsWith(key, CACHE_PREFIX) \/ Falsy(item)
            THEN [st EXCEPT !.i = st.i + 1]
            ELSE IF JSONparseThrows(item)
            THEN [st EXCEPT !.store = RemoveItem(st.store, key), !.i = st.i + 1]
            ELSE [st EXCEPT !.i = st.i + 1,
                            !.entries = Append(st.entries,
                                   [key |-> key, entry |-> JSONparse(item)])]

RECURSIVE GetAllEntriesLoop(_, _, _)
\* Passes lo..hi of the loop, in order, from loop state st (the range is
\* halved so that the evaluation stays shallow for a long list).
GetAllEntriesLoop(lo, hi, st) ==
    IF st.i > Len(st.store) \/ lo > hi THEN st
    ELSE IF lo = hi THEN GetAllEntriesStep(st)
    ELSE GetAllEntriesLoop(((lo + hi) \div 2) + 1, hi,
                           GetAllEntriesLoop(lo, (lo + hi) \div 2, st))

GetAllEntriesResult(end) == [store |-> end.store, entries |-> end.entries]

\* getAllEntries(): the entries it returns and localStorage as it leaves it.
\* The loop makes at most localStorage.length passes.
GetAllEntries(store) ==
    GetAllEntriesResult(
        GetAllEntriesLoop(1, Len(store), [store |-> store, i |-> 1, entries |-> <<>>]))

RECURSIVE SumRange(_, _, _)
\* The sum of entry.size over entries[lo..hi].
SumRange(entries, lo, hi) ==
    IF lo > hi THEN 0
    ELSE IF lo = hi THEN entries[lo].entry.size
    ELSE LET mid == (lo + hi) \div 2
         IN SumRange(entries, lo, mid) + SumRange(entries, mid + 1, hi)

\* entries.reduce((total, {entry}) => total + entry.size, 0)
SumSizes(entries) == SumRange(entries, 1, Len(entries))

\* Reading a property of a null entry throws a TypeError.
HasNullEntry(entries) == \E i \in 1..Len(entries) : entries[i].entry.isNull

\* The place (from 1) of entries[i] after
\* entries.sort((a, b) => a.entry.timestamp - b.entry.timestamp), a stable
\* sort: behind the entries with a smaller timestamp and the earlier entries
\* with the same timestamp.
SortedPlace(entries, i) ==
    1 + Cardinality({j \in 1..Len(entries) :
          \/ entries[j].entry.timestamp < entries[i].entry.timestamp
          \/ /\ entries[j].entry.timestamp = entries[i].entry.timestamp
             /\ j < i})

\* The keys of entries.sort(...).slice(0, Math.min(count, entries.length)).
OldestKeys(entries, count) ==
    {entries[i].key : i \in {j \in 1..Len(entries) :
                                SortedPlace(entries, j) <= Min(count, Len(entries))}}

\* keys.forEach(key => localStorage.removeItem(key))
RemoveAll(store, keys) == SelectSeq(store, LAMBDA e : e.key \notin keys)

\* cleanup(count) after getAllEntries returned r.  The comparator reads
\* entry.timestamp, so with two or more entries a null entry makes sort throw;
\* the catch swallows it and nothing more is removed.
CleanupEntries(r, count) ==
    IF Len(r.entries) >= 2 /\ HasNullEntry(r.entries) THEN r.store
    ELSE RemoveAll(r.store, OldestKeys(r.entries, count))

\* cleanup(count), count >= 0: localStorage afterwards.
Cleanup(store, count) == CleanupEntries(GetAllEntries(store), count)

\* cleanupIfNeeded() after getAllEntries returned r.
CleanupIfNeededEntries(r, n, totalSize) ==
    IF totalSize > MAX_CACHE_SIZE \/ n > MAX_CACHE_ITEMS
    THEN Cleanup(r.store, Max(n - MAX_CACHE_ITEMS + 10, Ceil02(n)))
    ELSE r.store

\* cleanupIfNeeded(): localStorage afterwards, and whether it threw (reduce
\* reads entry.size of a null entry).
CleanupIfNeededFrom(r) ==
    IF HasNullEntry(r.entries) THEN [store |-> r.store, threw |-> TRUE]
    ELSE [store |-> CleanupIfNeededEntries(r, Len(r.entries), SumSizes(r.entries)),
          threw |-> FALSE]

CleanupIfNeeded(store) == CleanupIfNeededFrom(GetAllEntries(store))

\* A retry without its own try/catch: a second rejection reaches the caller.
CacheSetRetryUncaught(s2, key, value, fail2, first, w) ==
    IF ~fail2
    THEN [store |-> SetItem(s2, key, value, first),
          raised |-> FALSE, writes |-> w, stored |-> TRUE, retries |-> 1]
    ELSE [store |-> s2, raised |-> TRUE, writes |-> w, stored |-> FALSE,
          retries |-> 1]

\* The catch block of set: cleanup(10) has left localStorage = s2; the retry.
CacheSetRetry(s2, key, value, fail2, first, w) ==
    IF ~fail2
    THEN [store |-> SetItem(s2, key, value, first),
          raised |-> FALSE, writes |-> w, stored |-> TRUE, retries |-> 1]
    ELSE [store |-> s2, raised |-> FALSE, writes |-> w, stored |-> FALSE,
          retries |-> 1]

\* set after cleanupIfNeeded returned c.
CacheSetFrom(c, key, value, fail1, fail2, first) ==
    IF ~c.threw /\ ~fail1
    THEN [store |-> SetItem(c.store, key, value, first),
          raised |-> FALSE, writes |-> 1, stored |-> TRUE, retries |-> 0]
    ELSE CacheSetRetry(Cleanup(c.store, RetryCleanupCount), key, value, fail2, first,
                       IF c.threw THEN 1 ELSE 2)

\* A set that stamps the entry with 0 instead of Date.now().
CacheSetNoTimestamp(store, modelId, dataUrl, t, fail1, fail2, first) ==
    CacheSetFrom(CleanupIfNeeded(store), KeyOf(modelId),
                 JSONstringify(dataUrl, 0, dataUrl.len), fail1, fail2, first)

\* set(modelId, dataUrl) at time t.  fail1 / fail2: localStorage.setItem throws
\* in the try block / in the retry.  The result: localStorage afterwards,
\* whether set raised to its caller, how many setItem calls were made, whether
\* one was accepted, and how many times cleanup(10) ran.
CacheSet(store, modelId, dataUrl, t, fail1, fail2, first) ==
    CacheSetFrom(CleanupIfNeeded(store), KeyOf(modelId),
                 JSONstringify(dataUrl, t, dataUrl.len), fail1, fail2, first)

\* A get that answers null for an expired entry and leaves it stored.
CacheGetItemKeepsExpired(store, key, item, t) ==
    IF Falsy(item) THEN [ret |-> NULL, store |-> store, note |-> "miss"]
    ELSE IF JSONparseThrows(item) \/ JSONparse(item).isNull
    THEN [ret |-> NULL, store |-> store, note |-> "caught"]
    ELSE IF t - JSONparse(item).timestamp > maxAge
    THEN [ret |-> NULL, store |-> store, note |-> "expired"]
    ELSE [ret |-> JSONparse(item).dataUrl, store |-> store, note |-> "hit"]

\* A get that stamps the entry it returns with the time of the read.
CacheGetItemRefreshes(store, key, item, t) ==
    IF Falsy(item) THEN [ret |-> NULL, store |-> store, note |-> "miss"]
    ELSE IF JSONparseThrows(item) \/ JSONparse(item).isNull
    THEN [ret |-> NULL, store |-> store, note |-> "caught"]
    ELSE IF t - JSONparse(item).timestamp > maxAge
    THEN [ret |-> NULL, store |-> RemoveItem(store, key), note |-> "expired"]
    ELSE [ret |-> JSONparse(item).dataUrl,
          store |-> SetItem(store, key, [item EXCEPT !.timestamp = t], FALSE),
          note |-> "hit"]

\* get(modelId) at time t, the item under its key read: the value returned,
\* localStorage afterwards, and the path taken (absent or empty item, parse
\* or property error caught, expired entry removed, entry returned).
CacheGetItem(store, key, item, t) ==
    IF Falsy(item) THEN [ret |-> NULL, store |-> store, note |-> "miss"]
    ELSE IF JSONparseThrows(item) \/ JSONparse(item).isNull
    THEN [ret |-> NULL, store |-> store, note |-> "caught"]
    ELSE IF t - JSONparse(item).timestamp > maxAge
    THEN [ret |-> NULL, store |-> RemoveItem(store, key), note |-> "expired"]
    ELSE [ret |-> JSONparse(item).dataUrl, store |-> store, note |-> "hit"]

CacheGet(store, modelId, t) ==
    IF ~HasKey(store, KeyOf(modelId))
    THEN [ret |-> NULL, store |-> store, note |-> "miss"]
    ELSE CacheGetItem(store, KeyOf(modelId), GetItem(store, KeyOf(modelId)), t)

\* has(modelId): get(modelId) !== null
CacheHasFrom(g) == [ret |-> g.ret # NULL, store |-> g.store, note |-> g.note]

CacheHas(store, modelId, t) == CacheHasFrom(CacheGet(store, modelId, t))

\* remove(modelId)
CacheRemove(store, modelId) == RemoveItem(store, KeyOf(modelId))

EntryKeys(entries) == {entries[i].key : i \in 1..Len(entries)}

ClearEntries(r) == RemoveAll(r.store, EntryKeys(r.entries))

\* A clear written as localStorage.clear().
CacheClearStorage(store) == SubSeq(store, 1, 0)

\* clear()
CacheClear(store) == ClearEntries(GetAllEntries(store))

GetStatsFrom(r) ==
    IF HasNullEntry(r.entries)
    THEN [store |-> r.store, threw |-> TRUE, count |-> 0, size |-> 0]
    ELSE [store |-> r.store, threw |-> FALSE,
          count |-> Len(r.entries), size |-> SumSizes(r.entries)]

\* getStats(): count and size, localStorage afterwards, and whether it threw
\* (reduce reads entry.size of a null entry).
CacheGetStats(store) == GetStatsFrom(GetAllEntries(store))

-----------------------------------------------------------------------------
(* Stores the cache can be found in *)

\* The clock when the page loads, and the latest time the model looks at.
Now0 == maxAge + 100
Horizon == Now0 + maxAge + 2

ModelIds == {"1", "2"}
NewUrl == [tag |-> "png-n", len |-> 4]

\* What localStorage may hold under a cache key, or under a key of another
\* script, when the page loads: entries written by earlier sessions (one of
\* them exactly maxAge old), and text the cache did not write.
InitValues1 ==
    {JSONstringify(TinyUrl, Now0 - maxAge, TinyUrl.len),
     GarbageText, EmptyText, NullText}
InitValues2 ==
    {JSONstringify(OtherUrl, Now0 - 2, OtherUrl.len),
     JSONstringify(HugeUrl, Now0 - 2, HugeUrl.len),
     GarbageText}
ForeignKeys == {<<"thumbnail", "s">>}
InitItems ==
    {[key |-> KeyOf("1"), value |-> v] : v \in InitValues1}
    \cup {[key |-> KeyOf("2"), value |-> v] : v \in InitValues2}
    \cup {[key |-> k, value |-> GarbageText] : k \in ForeignKeys}

NoDuplicateKeys(store) ==
    \A i, j \in 1..Len(store) : store[i].key = store[j].key => i = j

\* Every order of every choice of the items above.
InitStores ==
    UNION {{s \in [1..n -> InitItems] : NoDuplicateKeys(s)} : n \in 0..3}

\* Caches with unparseable values left under the keys of two more ids, next
\* to entries of "1" and "2" (one of them above MAX_CACHE_SIZE by itself).
CorruptItems ==
    {[key |-> KeyOf("3"), value |-> GarbageText],
     [key |-> KeyOf("4"), value |-> GarbageText],
     [key |-> KeyOf("1"), value |-> JSONstringify(TinyUrl, Now0 - maxAge, TinyUrl.len)],
     [key |-> KeyOf("2"), value |-> JSONstringify(OtherUrl, Now0 - 2, OtherUrl.len)],
     [key |-> KeyOf("2"), value |-> JSONstringify(HugeUrl, Now0 - 2, HugeUrl.len)]}

CorruptStores ==
    UNION {{s \in [1..n -> CorruptItems] : NoDuplicateKeys(s)} : n \in 2..4}

\* MAX_CACHE_ITEMS sets of ids "2".."101", one per millisecond, each of half
\* a MiB: the cache at both of its caps.
FullStore ==
    [i \in 1..MAX_CACHE_ITEMS |->
        [key |-> KeyOf(ToString(i + 1)),
         value |-> JSONstringify(HalfMiBUrl, i, HalfMiBUrl.len)]]

-----------------------------------------------------------------------------
(* ToolGrid and ThumbnailGenerator (2D assets) *)

MaxFetches == 3
MaxDecodes == 3
MaxGridSteps == 7
MaxMixedSteps == 5
MaxFairSteps == 10
MaxSide == 12
MaxRerenders == 2
MaxClock == 600

\* The models prop, in the order of models.forEach.
ModelList == <<"1", "2">>

\* The PNG data URL that canvas.toDataURL yields in img.onload.
GeneratedUrl == [tag |-> "png-g", len |-> 6]

\* ToolGrid before it is mounted: useState({}) for thumbnails and loadingUrls,
\* no request, no ThumbnailGenerator, no Image.  models is the models prop;
\* fetching[id] and images[id] count the requests and the Image loads in
\* flight, deleting[id] says a DELETE request is; decodes, callbacks and sets
\* count the Images created, the onThumbnailGenerated calls and the
\* ThumbnailCache.set calls for id; failed[id]: an Image of id had an error.
\* types[id] is model.type; loads[id] counts the glTF scenes of 3D assets
\* being loaded; crashed: an error thrown while rendering has unmounted the
\* page.
Unmounted ==
    [mounted |-> FALSE,
     crashed |-> FALSE,
     types |-> [id \in ModelIds |-> "2d"],
     loads |-> [id \in ModelIds |-> 0],
     models |-> ModelIds,
     deleting |-> [id \in ModelIds |-> FALSE],
     failed |-> [id \in ModelIds |-> FALSE],
     thumbnails |-> [id \in ModelIds |-> NoUrl],
     loadingUrls |-> [id \in ModelIds |-> FALSE],
     fetching |-> [id \in ModelIds |-> 0],
     generator |-> [id \in ModelIds |-> [mounted |-> FALSE, captured |-> FALSE]],
     images |-> [id \in ModelIds |-> 0],
     decodes |-> [id \in ModelIds |-> 0],
     callbacks |-> [id \in ModelIds |-> 0],
     sets |-> [id \in ModelIds |-> 0]]

\* loadingUrls[model.id] && !thumbnails[model.id]: the tile renders a
\* ThumbnailGenerator.
GeneratorShown(g, id) ==
    id \in g.models /\ g.loadingUrls[id] /\ g.thumbnails[id] = NoUrl

\* The 2D effect of ThumbnailGenerator creates an Image in this render: the
\* generator is rendered and not captured.  Its dependency
\* onThumbnailGenerated is a new arrow function in every render of ToolGrid,
\* so the effect runs after every render, not only after the first.
StartsImage(g, id) ==
    /\ g.types[id] = "2d"
    /\ GeneratorShown(g, id)
    /\ ~(g.generator[id].mounted /\ g.generator[id].captured)

\* The generator of a 3D asset is mounted in this render: Model3D calls
\* useGLTF(url), which starts loading the scene.
StartsLoad(g, id) ==
    g.types[id] = "3d" /\ GeneratorShown(g, id) /\ ~g.generator[id].mounted

\* A render of ToolGrid with state g, and the effects of the
\* ThumbnailGenerators it renders.
RenderGenerators(g) ==
    [g EXCEPT
       !.generator = [id \in ModelIds |->
           IF GeneratorShown(g, id)
           THEN [mounted |-> TRUE,
                 captured |-> g.generator[id].mounted /\ g.generator[id].captured]
           ELSE [mounted |-> FALSE, captured |-> FALSE]],
       !.images = [id \in ModelIds |->
           IF StartsImage(g, id) THEN g.images[id] + 1 ELSE g.images[id]],
       !.decodes = [id \in ModelIds |->
           IF StartsImage(g, id) THEN g.decodes[id] + 1 ELSE g.decodes[id]],
       !.loads = [id \in ModelIds |->
           IF StartsLoad(g, id) THEN g.loads[id] + 1 ELSE g.loads[id]]]

\* The effect "load cached thumbnails": models.forEach with ThumbnailCache.get.
\* acc = [store, cached].
LoadCachedStep(acc, id, r) ==
    [store |-> r.store,
     cached |-> IF r.ret # NULL THEN [acc.cached EXCEPT ![id] = r.ret]
                ELSE acc.cached]

RECURSIVE LoadCachedFrom(_, _, _, _)
LoadCachedFrom(acc, list, i, t) ==
    IF i > Len(list) THEN acc
    ELSE LoadCachedFrom(
             LoadCachedStep(acc, list[i], CacheGet(acc.store, list[i], t)),
             list, i + 1, t)

LoadCached(models, store, t) ==
    LoadCachedFrom([store |-> store, cached |-> [id \in ModelIds |-> NoUrl]],
                   SelectSeq(ModelList, LAMBDA id : id \in models), 1, t)

\* setThumbnails(prev => ({ ...prev, ...cachedThumbnails }))
MergeThumbnails(prev, cached) ==
    [id \in ModelIds |-> IF cached[id] # NoUrl THEN cached[id] ELSE prev[id]]

\* The effect "fetch URLs", run with the thumbnails and loadingUrls of the
\* render it belongs to (seen): a request for every model that has neither.
FetchUrls(fetching, seen) ==
    [id \in ModelIds |->
        IF id \in seen.models /\ seen.thumbnails[id] = NoUrl
           /\ ~seen.loadingUrls[id]
        THEN fetching[id] + 1 ELSE fetching[id]]

\* The effects of ToolGrid after the render of state g (rendered = g after
\* the generators' effects).  loaded is the result of the cache effect, run
\* when models changed; the fetch effect runs when one of models, thumbnails,
\* loadingUrls changed.  again: the cache effect called setThumbnails, so
\* ToolGrid renders once more.
GridEffects(g, rendered, loaded, models, fetch) ==
    [grid |-> [rendered EXCEPT
                  !.fetching = IF fetch THEN FetchUrls(rendered.fetching, g)
                               ELSE rendered.fetching,
                  !.thumbnails = IF models
                                 THEN MergeThumbnails(g.thumbnails, loaded.cached)
                                 ELSE g.thumbnails],
     store |-> loaded.store,
     again |-> models /\ \E id \in ModelIds : loaded.cached[id] # NoUrl]

RenderOnce(g, store, t, models, fetch) ==
    GridEffects(g, RenderGenerators(g),
                IF models THEN LoadCached(g.models, store, t)
                ELSE [store |-> store, cached |-> [id \in ModelIds |-> NoUrl]],
                models, fetch)

RenderAgain(r, t) ==
    IF r.again THEN RenderOnce(r.grid, r.store, t, FALSE, TRUE) ELSE r

\* ToolGrid renders with state g and runs its effects, until no state update
\* is pending.  models: the models prop is new (mount, or the parent dropped
\* a deleted model); fetch: one of the
\* dependencies of the fetch effect is new.
Render(g, store, t, models, fetch) ==
    RenderAgain(RenderOnce(g, store, t, models, fetch), t)

\* handleThumbnailGenerated(modelId, dataUrl) followed by setCaptured(true),
\* before the render: r is the result of ThumbnailCache.set.
Generated(g, id, dataUrl, r) ==
    [grid |-> [g EXCEPT !.thumbnails[id] = dataUrl,
                        !.loadingUrls[id] = FALSE,
                        !.generator[id].captured = g.generator[id].mounted,
                        !.images[id] = g.images[id] - 1,
                        !.callbacks[id] = g.callbacks[id] + 1,
                        !.sets[id] = g.sets[id] + 1],
     store |-> r.store]

\* handleCapture of the generator of a 3D asset, whose scene has loaded: as
\* Generated, the scene being the one thing in flight.
Generated3D(g, id, dataUrl, r) ==
    [grid |-> [Generated(g, id, dataUrl, r).grid EXCEPT
                  !.images[id] = g.images[id],
                  !.loads[id] = g.loads[id] - 1],
     store |-> r.store]

\* useGLTF throws while Model3D renders.  No component of the page catches
\* errors, so the page is unmounted as a whole and the state of ToolGrid is
\* gone.
Crashed(g) ==
    [g EXCEPT !.mounted = FALSE,
              !.crashed = TRUE,
              !.thumbnails = [id \in ModelIds |-> NoUrl],
              !.loadingUrls = [id \in ModelIds |-> FALSE],
              !.generator = [id \in ModelIds |-> [mounted |-> FALSE, captured |-> FALSE]],
              !.loads = [id \in ModelIds |-> 0]]

\* onDelete(modelId): the callback of the parent component, which takes the
\* deleted model out of the list it passes as models.
OnDelete(models, modelId) == models \ {modelId}

\* handleDelete after a successful DELETE response, before the render:
\* ThumbnailCache.remove, onDelete, the thumbnails key deleted,
\* setDeletingId(null).
Deleted(g, id, store) ==
    [grid |-> [g EXCEPT !.models = OnDelete(g.models, id),
                        !.thumbnails[id] = NoUrl,
                        !.deleting[id] = FALSE],
     store |-> CacheRemove(store, id)]

WithinBounds(g) ==
    \A id \in ModelIds : g.fetching[id] <= MaxFetches /\ g.decodes[id] <= MaxDecodes

-----------------------------------------------------------------------------
(* Numbers of the 2D scale arithmetic *)

\* A Number is an IEEE 754 double: sign, Precision binary digits (the most
\* significant first, the first one 1) and the power of two exp that the last
\* digit counts; zero has no digits.  Every operation rounds its exact result
\* to the nearest double, ties to the even one.
\* n zeros, none when n is not positive.
Zeros(n) == [i \in 1..(IF n > 0 THEN n ELSE 0) |-> 0]

Zero == [neg |-> FALSE, bits |-> <<>>, exp |-> 0]

RECURSIVE BitsOf(_)
\* The binary digits of the natural number n.
BitsOf(n) == IF n = 0 THEN <<>> ELSE Append(BitsOf(n \div 2), n % 2)

RECURSIVE Strip(_)
\* b without its leading zeros.
Strip(b) == IF b = <<>> \/ b[1] = 1 THEN b ELSE Strip(Tail(b))

RECURSIVE Increment(_)
\* b + 1, one digit longer when every digit of b is 1.
Increment(b) ==
    IF b = <<>> THEN <<1>>
    ELSE IF b[Len(b)] = 0 THEN [b EXCEPT ![Len(b)] = 1]
    ELSE Append(Increment(SubSeq(b, 1, Len(b) - 1)), 0)

\* The first Precision digits of b, rounded up: e is the power of their last
\* digit.
RoundUp(neg, up, e) ==
    IF Len(up) > Precision
    THEN [neg |-> neg, bits |-> SubSeq(up, 1, Precision), exp |-> e + 1]
    ELSE [neg |-> neg, bits |-> up, exp |-> e]

\* The double nearest to the exact value with digits b (no leading zero), the
\* last one counting 2^exp, plus a rest below the last digit when sticky.
RoundNearestEven(neg, b, exp, sticky) ==
    IF b = <<>> THEN Zero
    ELSE IF Len(b) <= Precision
    THEN [neg |-> neg, bits |-> b \o Zeros(Precision - Len(b)),
          exp |-> exp - (Precision - Len(b))]
    ELSE IF /\ b[Precision + 1] = 1
            /\ \/ sticky
               \/ \E i \in (Precision + 2)..Len(b) : b[i] = 1
               \/ b[Precision] = 1
    THEN RoundUp(neg, Increment(SubSeq(b, 1, Precision)), exp + Len(b) - Precision)
    ELSE [neg |-> neg, bits |-> SubSeq(b, 1, Precision),
          exp |-> exp + Len(b) - Precision]

\* The Number of a natural number below 2^Precision.
FromInt(n) == RoundNearestEven(FALSE, BitsOf(n), 0, FALSE)

RECURSIVE DivideLoop(_, _, _, _)
\* Long division: the digits of the quotient so far, the remainder r, the
\* divisor d and the power of the last digit, until the division ends or two
\* digits more than Precision are there; then the quotient is rounded.
DivideLoop(bits, r, d, exp) ==
    IF r = 0 \/ Len(bits) >= Precision + 2
    THEN RoundNearestEven(FALSE, bits, exp, r # 0)
    ELSE IF 2 * r >= d
    THEN DivideLoop(Append(bits, 1), 2 * r - d, d, exp - 1)
    ELSE DivideLoop(IF bits = <<>> THEN bits ELSE Append(bits, 0), 2 * r, d, exp - 1)

\* a / d for natural numbers a and d > 0.
Divide(a, d) == DivideLoop(BitsOf(a \div d), a % d, d, 0)

RECURSIVE TimesLoop(_, _, _, _, _)
\* The digits of n times the digits b, from the last digit i to the first,
\* with carry c.
TimesLoop(b, n, i, c, out) ==
    IF i = 0 THEN BitsOf(c) \o out
    ELSE TimesLoop(b, n, i - 1, (b[i] * n + c) \div 2,
                   <<(b[i] * n + c) % 2>> \o out)

\* n * x for a natural number n and a Number x.
Times(n, x) ==
    RoundNearestEven(x.neg, Strip(TimesLoop(x.bits, n, Len(x.bits), 0, <<>>)),
                     x.exp, FALSE)

\* Digits a below digits b, of the same length.
LessBits(a, b) ==
    \E i \in 1..Len(a) : a[i] < b[i] /\ \A j \in 1..(i - 1) : a[j] = b[j]

RECURSIVE MinusLoop(_, _, _, _, _)
\* The digits of a - b for a >= b of the same length, from the last digit i
\* to the first, with the borrow.
MinusLoop(a, b, i, borrow, out) ==
    IF i = 0 THEN out
    ELSE IF a[i] - b[i] - borrow < 0
    THEN MinusLoop(a, b, i - 1, 1, <<a[i] - b[i] - borrow + 2>> \o out)
    ELSE MinusLoop(a, b, i - 1, 0, <<a[i] - b[i] - borrow>> \o out)

\* a - b for digits of the same length and power.
MinusBits(a, b, exp) ==
    IF LessBits(a, b)
    THEN RoundNearestEven(TRUE, Strip(MinusLoop(b, a, Len(a), 0, <<>>)), exp, FALSE)
    ELSE RoundNearestEven(FALSE, Strip(MinusLoop(a, b, Len(a), 0, <<>>)), exp, FALSE)

\* n - y for a natural number n and a Number y >= 0 with y.exp <= 0: the
\* digits of n down to the power y.exp, and both brought to one length.
Minus(n, y) ==
    MinusBits(Zeros(Len(y.bits) - Len(BitsOf(n)) + y.exp) \o BitsOf(n) \o Zeros(0 - y.exp),
              Zeros(Len(BitsOf(n)) - y.exp - Len(y.bits)) \o y.bits,
              y.exp)

\* x / 2.
Half(x) == IF x = Zero THEN Zero ELSE [x EXCEPT !.exp = x.exp - 1]

\* x < y for Numbers x, y > 0.
Less(x, y) == x.exp < y.exp \/ (x.exp = y.exp /\ LessBits(x.bits, y.bits))

\* Math.min(x, y) for Numbers x, y > 0.
MathMin(x, y) == IF Less(y, x) THEN y ELSE x

\* Math.max(x, y) for Numbers x, y > 0.
MathMax(x, y) == IF Less(x, y) THEN y ELSE x

\* The distance between x and the next double above it.
Ulp(x) == [neg |-> FALSE, bits |-> <<1>> \o Zeros(Precision - 1),
           exp |-> x.exp - (Precision - 1)]

Abs(x) == [x EXCEPT !.neg = FALSE]

-----------------------------------------------------------------------------
(* ThumbnailGenerator: the 2D thumbnail *)

\* The image of the generator before it has loaded: naturalWidth w and
\* naturalHeight h.
Undrawn(w, h) ==
    [w |-> w, h |-> h, loaded |-> FALSE, drawn |-> FALSE, scale |-> Zero,
     scaledWidth |-> Zero, scaledHeight |-> Zero, x |-> Zero, y |-> Zero]

NoCanvas == Undrawn(0, 0)

\* A scale that fills the square: the larger of the two quotients.
DrawScaleToFill(w, h) == MathMax(Divide(CanvasSize, w), Divide(CanvasSize, h))

\* const scale = Math.min(size / img.width, size / img.height)
DrawScale(w, h) == MathMin(Divide(CanvasSize, w), Divide(CanvasSize, h))

\* ctx.drawImage(img, x, y, scaledWidth, scaledHeight) with the scale computed.
DrawImageAt(c, scale) ==
    [c EXCEPT !.loaded = TRUE, !.drawn = TRUE, !.scale = scale,
              !.scaledWidth = Times(c.w, scale),
              !.scaledHeight = Times(c.h, scale),
              !.x = Half(Minus(CanvasSize, Times(c.w, scale))),
              !.y = Half(Minus(CanvasSize, Times(c.h, scale)))]

\* img.onload of the 2D effect; ctx: getContext('2d') returned a context.
DrawImage(c, ctx) ==
    IF ctx THEN DrawImageAt(c, DrawScale(c.w, c.h)) ELSE [c EXCEPT !.loaded = TRUE]

\* The sizes of the images decoded.
ImageSizes == ((1..MaxSide) \X (1..MaxSide)) \cup {<<2 * CanvasSize, CanvasSize>>}

-----------------------------------------------------------------------------
(* ThumbnailGenerator: the 3D thumbnail *)

RECURSIVE GCD(_, _)
GCD(a, b) == IF b = 0 THEN a ELSE GCD(b, a % b)

\* Coordinates and scales are fractions n/d in lowest terms, d > 0.
Rat(n, d) ==
    IF n = 0 THEN <<0, 1>>
    ELSE IF n < 0 THEN <<0 - (0 - n) \div GCD(0 - n, d), d \div GCD(0 - n, d)>>
    ELSE <<n \div GCD(n, d), d \div GCD(n, d)>>

RatTimes(a, b) == Rat(a[1] * b[1], a[2] * b[2])

RatPlus(a, b) == Rat(a[1] * b[2] + b[1] * a[2], a[2] * b[2])

RatMinus(a, b) == Rat(a[1] * b[2] - b[1] * a[2], a[2] * b[2])

\* a / b for b > 0.
RatOver(a, b) == Rat(a[1] * b[2], a[2] * b[1])

\* The glTF scenes: centre and extent of the bounding box along the longest
\* axis, in the scene's own coordinates.
Scenes3D ==
    {[center |-> 0, extent |-> 3], [center |-> 0, extent |-> 6],
     [center |-> 2, extent |-> 3]}

\* new THREE.Box3().setFromObject(scene): the box in world coordinates, the
\* object having the position and scale it has now.
BoxCenter(s) == RatPlus(RatTimes(s.scale, Rat(s.center, 1)), s.position)

BoxSize(s) == RatTimes(s.scale, Rat(s.extent, 1))

\* The generator before the glTF file has loaded.  timers: the pending
\* setTimeout callbacks in the order of their creation, each with its due
\* time and, for a capture, the value of captured in the handleCapture it
\* calls.  shot: the scene as the last toDataURL saw it.
NoShot == [taken |-> FALSE, position |-> Rat(0, 1), scale |-> Rat(1, 1),
           ready |-> FALSE, rendered |-> FALSE, normalised |-> 0]

Loading(m) ==
    [status |-> "loading", center |-> m.center, extent |-> m.extent,
     position |-> Rat(0, 1), scale |-> Rat(1, 1), normalised |-> 0,
     modelReady |-> FALSE, captured |-> FALSE, timers |-> <<>>, clock |-> 0,
     rerenders |-> 0, glRenders |-> 0, captures |-> 0, shot |-> NoShot]

NoScene == [Loading([center |-> 0, extent |-> 1]) EXCEPT !.status = "none"]

\* The effect of Model3D: position.sub(center), scale.setScalar(1.5 / maxDim)
\* and setTimeout(() => onReady(), 100).
Model3DEffect(s) ==
    [s EXCEPT !.position = RatMinus(s.position, BoxCenter(s)),
              !.scale = RatOver(Rat(3, 2), BoxSize(s)),
              !.normalised = s.normalised + 1,
              !.timers = Append(s.timers, [due |-> s.clock + ReadyDelay,
                                           kind |-> "ready", captured |-> FALSE])]

\* The effect of Scene3D: if (modelReady) setTimeout(..., 200).
Scene3DEffect(s) ==
    IF s.modelReady
    THEN [s EXCEPT !.timers = Append(s.timers, [due |-> s.clock + CaptureDelay,
                                                kind |-> "capture",
                                                captured |-> s.captured])]
    ELSE s

\* A render of Scene3D after modelReady or onCapture changed: onReady is a new
\* function, so the effect of Model3D runs again once the scene is there
\* (the child's effect first), and then the effect of Scene3D.
Scene3DRender(s) ==
    IF s.status # "loaded" THEN s ELSE Scene3DEffect(Model3DEffect(s))

\* The timer that fires next: the first of those with the earliest due time.
NextTimer(s) ==
    CHOOSE i \in 1..Len(s.timers) :
        \A j \in 1..Len(s.timers) :
            \/ s.timers[i].due < s.timers[j].due
            \/ s.timers[i].due = s.timers[j].due /\ i <= j

WithoutTimer(s, i) ==
    [s EXCEPT !.timers = SubSeq(s.timers, 1, i - 1)
                           \o SubSeq(s.timers, i + 1, Len(s.timers))]

\* () => onReady(): setModelReady(true), and the render it causes when the
\* state changes.
OnReady(s) ==
    IF s.modelReady THEN s
    ELSE Scene3DRender([s EXCEPT !.modelReady = TRUE])

\* handleCapture from a render in which captured was c; ok: toDataURL
\* returned.  setCaptured(true) renders the generator, the Canvas and Scene3D
\* again, with a new onCapture.
Captured(s) ==
    [s EXCEPT !.captures = s.captures + 1,
              !.captured = TRUE,
              !.shot = [taken |-> TRUE, position |-> s.position,
                        scale |-> s.scale, ready |-> s.modelReady,
                        rendered |-> s.glRenders > 0,
                        normalised |-> s.normalised]]

HandleCapture(s, c, ok) ==
    IF c \/ ~ok THEN s
    ELSE IF s.captured THEN Captured(s)
    ELSE Scene3DRender(Captured(s))

\* () => { gl.render(scene, camera); onCapture() }
OnCaptureTimer(s, c, ok) ==
    HandleCapture([s EXCEPT !.glRenders = s.glRenders + 1], c, ok)

-----------------------------------------------------------------------------
(* The server: models and groups in the key-value store *)

\* Group ids: 'default' has no record in the store, "group_1" is a group
\* made by POST /groups.  Model keys: "model_1" may be stored when the
\* requests start, "model_2" is the key that POST /upload makes.
DefaultGroup == "default"

StoredGroup == "group_1"

GroupIds == {DefaultGroup, StoredGroup}

ModelKeys == {"model_1", "model_2"}

Absent == "absent"

\* A request handler that has not been called.  pc is the await it stands
\* at, status the HTTP status it returned (0: none yet).
IdleHandler ==
    [pc |-> "idle", status |-> 0, id |-> "", groupId |-> "", todo |-> <<>>]

\* The store: groups holds the group records, models[k] the groupId of the
\* model under key k.
ServerWith(groups, models) ==
    [groups |-> groups, models |-> models,
     del |-> IdleHandler, up |-> IdleHandler, mv |-> IdleHandler]

NoServer == ServerWith({}, [k \in ModelKeys |-> Absent])

Returned(h, status) == [h EXCEPT !.pc = "done", !.status = status]

\* DELETE /groups/:id up to its first await.
DeleteGroupCalled(sv, groupId) ==
    IF groupId = DefaultGroup
    THEN [sv EXCEPT !.del = Returned([sv.del EXCEPT !.groupId = groupId], 400)]
    ELSE [sv EXCEPT !.del = [sv.del EXCEPT !.pc = "get", !.groupId = groupId]]

\* const group = await kv.get(groupId)
DeleteGroupGot(sv) ==
    IF sv.del.groupId \notin sv.groups
    THEN [sv EXCEPT !.del = Returned(sv.del, 404)]
    ELSE [sv EXCEPT !.del.pc = "list"]

\* const models = await kv.getByPrefix('model_'): the models of the group as
\* the store has them now, in the order of the for loop.
DeleteGroupListed(sv) ==
    [sv EXCEPT !.del.pc = "loop",
               !.del.todo = SelectSeq(<<"model_1", "model_2">>,
                                LAMBDA k : sv.models[k] = sv.del.groupId)]

\* One await kv.set(model.id, { ...model, groupId: 'default' }) of the loop,
\* or, the loop being over, await kv.del(groupId) and the response.
DeleteGroupStep(sv) ==
    IF sv.del.todo # <<>>
    THEN [sv EXCEPT !.models[Head(sv.del.todo)] = DefaultGroup,
                    !.del.todo = Tail(sv.del.todo)]
    ELSE [sv EXCEPT !.groups = sv.groups \ {sv.del.groupId},
                    !.del = Returned(sv.del, 200)]

\* POST /upload up to the upload of the file: groupId is the form field or
\* 'default'.
UploadCalled(sv, groupId) ==
    [sv EXCEPT !.up = [sv.up EXCEPT !.pc = "store", !.id = "model_2",
                                    !.groupId = groupId]]

\* The file upload returns; with uploadError the handler answers 500.
UploadStored(sv, ok) ==
    IF ok THEN [sv EXCEPT !.up.pc = "set"]
    ELSE [sv EXCEPT !.up = Returned(sv.up, 500)]

\* await kv.set(modelId, metadata)
UploadSet(sv) ==
    [sv EXCEPT !.models[sv.up.id] = sv.up.groupId,
               !.up = Returned(sv.up, 200)]

\* PUT /models/:id/group up to await kv.get(modelId).
MoveCalled(sv, modelId, groupId) ==
    [sv EXCEPT !.mv = [sv.mv EXCEPT !.pc = "get", !.id = modelId,
                                    !.groupId = groupId]]

\* const model = await kv.get(modelId)
MoveGot(sv) ==
    IF sv.models[sv.mv.id] = Absent
    THEN [sv EXCEPT !.mv = Returned(sv.mv, 404)]
    ELSE [sv EXCEPT !.mv.pc = "set"]

\* await kv.set(modelId, { ...model, groupId })
MoveSet(sv) ==
    [sv EXCEPT !.models[sv.mv.id] = sv.mv.groupId,
               !.mv = Returned(sv.mv, 200)]

-----------------------------------------------------------------------------
(* Operations *)

\* written[id]: the payload and time of the last set of id and whether
\* localStorage accepted it, as long as no later set of id, remove, clear or
\* eviction (the key was there before an operation and is gone after it)
\* happened.
None == [payload |-> NULL, at |-> 0, stored |-> FALSE]

StillWritten(w, before, after) ==
    [id \in ModelIds |->
        IF HasKey(before, KeyOf(id)) /\ ~HasKey(after, KeyOf(id)) THEN None
        ELSE w[id]]

\* What the last operation was and what its caller saw.  again: it is the
\* operation, with the id, of the step before; writes, retries: the setItem
\* calls and the cleanup(10) calls of a set.
NoOp == [op |-> "none", id |-> "", ret |-> NULL, raised |-> FALSE, n |-> 0,
         fail1 |-> FALSE, fail2 |-> FALSE, stored |-> FALSE, note |-> "",
         again |-> FALSE, writes |-> 0, retries |-> 0]

Again(op, id) == last.op = op /\ last.id = id

InitWith(stores, maxOps) ==
    /\ storage \in stores
    /\ budget = maxOps
    /\ now = Now0
    /\ last = NoOp
    /\ ops = 0
    /\ written = [id \in ModelIds |-> None]
    /\ grid = Unmounted
    /\ canvas = NoCanvas
    /\ scene = NoScene
    /\ server = NoServer

Init == InitWith(InitStores, MaxOps)

InitFull == InitWith({FullStore}, MaxFullOps)

Set(modelId, dataUrl, fail1, fail2, first) ==
    /\ ops < budget
    /\ LET r == CacheSet(storage, modelId, dataUrl, now, fail1, fail2, first)
       IN /\ storage' = r.store
          /\ last' = [NoOp EXCEPT !.op = "set", !.id = modelId, !.ret = dataUrl,
                                  !.raised = r.raised, !.fail1 = fail1,
                                  !.fail2 = fail2, !.stored = r.stored,
                                  !.writes = r.writes, !.retries = r.retries]
          /\ written' = [StillWritten(written, storage, r.store) EXCEPT
                            ![modelId] = [payload |-> dataUrl, at |-> now,
                                          stored |-> r.stored]]
    /\ ops' = ops + 1
    /\ UNCHANGED <<now, budget, grid, canvas, scene, server>>

Get(modelId) ==
    /\ ops < budget
    /\ LET r == CacheGet(storage, modelId, now)
       IN /\ storage' = r.store
          /\ last' = [NoOp EXCEPT !.op = "get", !.id = modelId, !.ret = r.ret,
                                  !.note = r.note,
                                  !.again = Again("get", modelId)]
          /\ written' = StillWritten(written, storage, r.store)
    /\ ops' = ops + 1
    /\ UNCHANGED <<now, budget, grid, canvas, scene, server>>

Has(modelId) ==
    /\ ops < budget
    /\ LET r == CacheHas(storage, modelId, now)
       IN /\ storage' = r.store
          /\ last' = [NoOp EXCEPT !.op = "has", !.id = modelId,
                                  !.stored = r.ret, !.note = r.note]
          /\ written' = StillWritten(written, storage, r.store)
    /\ ops' = ops + 1
    /\ UNCHANGED <<now, budget, grid, canvas, scene, server>>

Remove(modelId) ==
    /\ ops < budget
    /\ storage' = CacheRemove(storage, modelId)
    /\ last' = [NoOp EXCEPT !.op = "remove", !.id = modelId,
                            !.again = Again("remove", modelId)]
    /\ written' = [written EXCEPT ![modelId] = None]
    /\ ops' = ops + 1
    /\ UNCHANGED <<now, budget, grid, canvas, scene, server>>

CleanupOp(count) ==
    /\ ops < budget
    /\ storage' = Cleanup(storage, count)
    /\ last' = [NoOp EXCEPT !.op = "cleanup", !.n = count]
    /\ written' = StillWritten(written, storage, storage')
    /\ ops' = ops + 1
    /\ UNCHANGED <<now, budget, grid, canvas, scene, server>>

Clear ==
    /\ ops < budget
    /\ storage' = CacheClear(storage)
    /\ last' = [NoOp EXCEPT !.op = "clear"]
    /\ written' = [id \in ModelIds |-> None]
    /\ ops' = ops + 1
    /\ UNCHANGED <<now, budget, grid, canvas, scene, server>>

GetStats ==
    /\ ops < budget
    /\ LET r == CacheGetStats(storage)
       IN /\ storage' = r.store
          /\ last' = [NoOp EXCEPT !.op = "getStats", !.raised = r.threw,
                                  !.n = r.count]
          /\ written' = StillWritten(written, storage, r.store)
    /\ ops' = ops + 1
    /\ UNCHANGED <<now, budget, grid, canvas, scene, server>>

GetCacheSize ==
    /\ ops < budget
    /\ LET r == CacheGetStats(storage)
       IN /\ storage' = r.store
          /\ last' = [NoOp EXCEPT !.op = "getCacheSize", !.raised = r.threw,
                                  !.n = r.size]
          /\ written' = StillWritten(written, storage, r.store)
    /\ ops' = ops + 1
    /\ UNCHANGED <<now, budget, grid, canvas, scene, server>>

\* Date.now() moves on by d between two operations.
Tick(d) ==
    /\ ops < budget
    /\ now + d <= Horizon
    /\ now' = now + d
    /\ last' = [NoOp EXCEPT !.op = "tick", !.n = d]
    /\ ops' = ops + 1
    /\ UNCHANGED <<storage, written, budget, grid, canvas, scene, server>>

Next ==
    \/ \E id \in ModelIds, f1, f2, first \in BOOLEAN :
           (f2 => f1) /\ Set(id, NewUrl, f1, f2, first)
    \/ \E id \in ModelIds : Get(id)
    \/ \E id \in ModelIds : Has(id)
    \/ \E id \in ModelIds : Remove(id)
    \/ \E c \in {1, RetryCleanupCount} : CleanupOp(c)
    \/ Clear
    \/ GetStats
    \/ GetCacheSize
    \/ \E d \in {1, maxAge - 1} : Tick(d)

Spec == Init /\ [][Next]_vars

\* The same operations on the cache at its caps.
SpecFull == InitFull /\ [][Next]_vars

\* The same operations on caches holding unparseable values.
InitCorrupt == InitWith(CorruptStores, MaxCorruptOps)

SpecCorrupt == InitCorrupt /\ [][Next]_vars

-----------------------------------------------------------------------------
(* The grid: mount, responses, image events, renders *)

\* localStorage when the page with the grid loads.
GridStores == {s \in InitStores : Len(s) <= 1}

InitGrid == InitWith(GridStores, MaxGridSteps)

\* The event is handled and its updates are rendered: r = [grid, store].
Committed(r) ==
    /\ ops < budget
    /\ ~grid.crashed
    /\ WithinBounds(r.grid)
    /\ grid' = r.grid
    /\ storage' = r.store
    /\ ops' = ops + 1
    /\ UNCHANGED <<now, last, budget, written, canvas, scene, server>>

\* ToolGrid mounts: first render, then both effects.
GridMount ==
    /\ ~grid.mounted
    /\ Committed(Render([grid EXCEPT !.mounted = TRUE], storage, now, TRUE, TRUE))

\* The response of a request of fetchModelUrl arrives.  ok: response.ok &&
\* data.success; else (or when fetch rejects) nothing is set.
FetchResolve(id, ok) ==
    /\ grid.mounted
    /\ grid.fetching[id] > 0
    /\ IF ok /\ ~grid.loadingUrls[id]
       THEN Committed(Render([grid EXCEPT !.fetching[id] = grid.fetching[id] - 1,
                                          !.loadingUrls[id] = TRUE],
                             storage, now, FALSE, TRUE))
       ELSE Committed([grid |-> [grid EXCEPT !.fetching[id] = grid.fetching[id] - 1],
                       store |-> storage])

\* img.onload of one Image in flight for id.  ctx: canvas.getContext('2d')
\* gave a context; without one nothing is drawn and nothing reported.
ImageLoad(id, ctx, fail1, fail2, first) ==
    /\ grid.images[id] > 0
    /\ IF ctx
       THEN Committed(Render(
                Generated(grid, id, GeneratedUrl,
                          CacheSet(storage, id, GeneratedUrl, now, fail1, fail2, first)).grid,
                CacheSet(storage, id, GeneratedUrl, now, fail1, fail2, first).store,
                now, FALSE, TRUE))
       ELSE /\ ~fail1 /\ ~first
            /\ Committed([grid |-> [grid EXCEPT !.images[id] = grid.images[id] - 1],
                          store |-> storage])

\* An onerror handler that caches a placeholder for the id.
ImageErrorCaches(id) ==
    /\ grid.images[id] > 0
    /\ Committed([grid |-> [grid EXCEPT !.images[id] = grid.images[id] - 1,
                                        !.failed[id] = TRUE],
                  store |-> CacheSet(storage, id, TinyUrl, now,
                                     FALSE, FALSE, FALSE).store])

\* img.onerror of one Image in flight for id: console.error only.
ImageError(id) ==
    /\ grid.images[id] > 0
    /\ Committed([grid |-> [grid EXCEPT !.images[id] = grid.images[id] - 1,
                                        !.failed[id] = TRUE],
                  store |-> storage])

\* handleDelete(id) up to its await: confirm() accepted, setDeletingId(id),
\* the DELETE request sent.
DeleteClick(id) ==
    /\ grid.mounted
    /\ id \in grid.models
    /\ ~grid.deleting[id]
    /\ Committed(Render([grid EXCEPT !.deleting[id] = TRUE],
                        storage, now, FALSE, FALSE))

\* handleDelete(id) after the await.  ok: response.ok && data.success; else
\* the catch block alerts, and finally setDeletingId(null) in both cases.
DeleteResolve(id, ok) ==
    /\ grid.deleting[id]
    /\ IF ok
       THEN Committed(Render(Deleted(grid, id, storage).grid,
                             Deleted(grid, id, storage).store, now, TRUE, TRUE))
       ELSE Committed(Render([grid EXCEPT !.deleting[id] = FALSE],
                             storage, now, FALSE, FALSE))

\* ToolGrid renders with its state and models unchanged (its parent rendered,
\* or setDeletingId): no effect of ToolGrid runs, the generators' effects do.
GridRender ==
    /\ grid.mounted
    /\ Committed(Render(grid, storage, now, FALSE, FALSE))

NextGrid ==
    \/ GridMount
    \/ \E id \in ModelIds, ok \in BOOLEAN : FetchResolve(id, ok)
    \/ \E id \in ModelIds, ctx, f1, f2, first \in BOOLEAN :
          (f2 => f1) /\ ImageLoad(id, ctx, f1, f2, first)
    \/ \E id \in ModelIds : ImageError(id)
    \/ \E id \in ModelIds : DeleteClick(id)
    \/ \E id \in ModelIds, ok \in BOOLEAN : DeleteResolve(id, ok)
    \/ GridRender

SpecGrid == InitGrid /\ [][NextGrid]_vars

\* The grid with 3D assets among its models.
MixedTypes == {t \in [ModelIds -> {"2d", "3d"}] : \E id \in ModelIds : t[id] = "3d"}

InitGridMixed ==
    /\ storage \in GridStores
    /\ budget = MaxMixedSteps
    /\ now = Now0
    /\ last = NoOp
    /\ ops = 0
    /\ written = [id \in ModelIds |-> None]
    /\ grid \in {[Unmounted EXCEPT !.types = t] : t \in MixedTypes}
    /\ canvas = NoCanvas
    /\ scene = NoScene
    /\ server = NoServer

\* The scene of a 3D asset cannot be loaded: useGLTF throws in the render of
\* Model3D.
GltfError(id) ==
    /\ grid.loads[id] > 0
    /\ Committed([grid |-> Crashed(grid), store |-> storage])

\* The scene of a 3D asset has loaded and the capture timer calls
\* handleCapture.  ok: toDataURL returned; else its error is caught.
SceneCaptured(id, ok, fail1, fail2, first) ==
    /\ grid.loads[id] > 0
    /\ IF ok
       THEN Committed(Render(
                Generated3D(grid, id, GeneratedUrl,
                            CacheSet(storage, id, GeneratedUrl, now, fail1, fail2, first)).grid,
                CacheSet(storage, id, GeneratedUrl, now, fail1, fail2, first).store,
                now, FALSE, TRUE))
       ELSE /\ ~fail1 /\ ~first
            /\ Committed([grid |-> [grid EXCEPT !.loads[id] = grid.loads[id] - 1],
                          store |-> storage])

NextGridMixed ==
    \/ NextGrid
    \/ \E id \in ModelIds : GltfError(id)
    \/ \E id \in ModelIds, ok, f1, f2, first \in BOOLEAN :
          (f2 => f1) /\ SceneCaptured(id, ok, f1, f2, first)

SpecGridMixed == InitGridMixed /\ [][NextGridMixed]_vars

-----------------------------------------------------------------------------
(* Properties of the cache *)

\* The keys under the cache namespace.
NamespaceKeys(store) == {k \in KeysOf(store) : StartsWith(k, CACHE_PREFIX)}

\* The stored entries under the namespace: key and recorded entry.
StoredEntries(store) ==
    LET sel == SelectSeq(store, LAMBDA e : StartsWith(e.key, CACHE_PREFIX)
                                            /\ e.value.kind = "json")
    IN [i \in 1..Len(sel) |-> [key |-> sel[i].key, entry |-> JSONparse(sel[i].value)]]

StoredSize(store) == SumSizes(StoredEntries(store))

HasEntry(store, id) ==
    HasKey(store, KeyOf(id)) /\ GetItem(store, KeyOf(id)).kind = "json"

EntryOf(store, id) == JSONparse(GetItem(store, KeyOf(id)))

\* C1: after every set the number of keys under the cache namespace is at
\* most MAX_CACHE_ITEMS.
C1_CountAtMostMaxItems ==
    last.op = "set" => Cardinality(NamespaceKeys(storage)) <= MAX_CACHE_ITEMS

\* C2: after every set the recorded sizes of the entries under the namespace
\* sum to at most MAX_CACHE_SIZE, the entry just inserted included.
C2_SizeAtMostMaxSize ==
    last.op = "set" => StoredSize(storage) <= MAX_CACHE_SIZE

\* C3 as claimed: a get of an entry whose age is maxAge or more (exactly
\* maxAge included) returns null and deletes the key.
C3_ExpiredFromSevenDays ==
    [][\A id \in ModelIds :
         (last'.op = "get" /\ last'.id = id /\ HasEntry(storage, id)
            /\ now - EntryOf(storage, id).timestamp >= maxAge)
         => (last'.ret = NULL /\ ~HasKey(storage', KeyOf(id)))]_vars

\* C3 as amended: a get of an entry whose age is more than maxAge returns
\* null and deletes the key, so that getAllEntries no longer lists it; at an
\* age of exactly maxAge the entry is still returned and kept.
C3_ExpiredAfterSevenDays ==
    [][\A id \in ModelIds :
         (last'.op = "get" /\ last'.id = id /\ HasEntry(storage, id))
         => /\ now - EntryOf(storage, id).timestamp > maxAge
               => /\ last'.ret = NULL
                  /\ ~HasKey(storage', KeyOf(id))
                  /\ KeyOf(id) \notin EntryKeys(GetAllEntries(storage').entries)
            /\ now - EntryOf(storage, id).timestamp = maxAge
               => /\ last'.ret = EntryOf(storage, id).dataUrl
                  /\ storage' = storage]_vars

\* A get found an entry past maxAge, answered null and removed the key.
C3_Witness ==
    /\ last.op = "get"
    /\ last.note = "expired"
    /\ last.ret = NULL
    /\ ~HasKey(storage, KeyOf(last.id))

\* C4 as claimed: after set(id, payload) at time T, with no remove, clear,
\* eviction or later set of id since, a get(id) before T + maxAge returns
\* payload.
C4_RoundTrip ==
    [][\A id \in ModelIds :
         (last'.op = "get" /\ last'.id = id /\ written[id] # None
            /\ now < written[id].at + maxAge)
         => last'.ret = written[id].payload]_vars

\* C4 as amended: the same when localStorage accepted the write of the set
\* (in the try block or in the retry).
C4_RoundTripWhenStored ==
    [][\A id \in ModelIds :
         (last'.op = "get" /\ last'.id = id /\ written[id] # None
            /\ written[id].stored /\ now < written[id].at + maxAge)
         => last'.ret = written[id].payload]_vars

\* A get, later than the accepted set of its id and before its expiry,
\* returned the payload.
C4_Witness ==
    /\ last.op = "get"
    /\ written[last.id].stored
    /\ now > written[last.id].at
    /\ now < written[last.id].at + maxAge
    /\ last.ret = written[last.id].payload

\* C5: remove does not raise and leaves no entry for the id; removing an id
\* that has no entry, and removing an id a second time, change nothing.
C5_RemoveIdempotent ==
    [][last'.op = "remove"
         => /\ ~last'.raised
            /\ ~HasKey(storage', KeyOf(last'.id))
            /\ ~HasKey(storage, KeyOf(last'.id)) => storage' = storage
            /\ last'.again => storage' = storage]_vars

\* A second remove of the same id, with other keys in localStorage.
C5_Witness ==
    /\ last.op = "remove"
    /\ last.again
    /\ NamespaceKeys(storage) # {}

\* The keys of the n oldest of the stored entries (n capped at their number).
OldestStoredKeys(store, n) == OldestKeys(StoredEntries(store), n)

DistinctTimestamps(entries) ==
    \A i, j \in 1..Len(entries) :
        entries[i].entry.timestamp = entries[j].entry.timestamp => i = j

\* C6: a cleanup(n) over entries with pairwise distinct timestamps (every
\* value under the namespace being an entry or unparseable text) removes
\* exactly the min(n, count) entries with the smallest timestamps.
C6_CleanupRemovesOldest ==
    [][(/\ last'.op = "cleanup"
        /\ DistinctTimestamps(StoredEntries(storage))
        /\ \A i \in 1..Len(storage) :
              StartsWith(storage[i].key, CACHE_PREFIX)
              => storage[i].value.kind \in {"json", "garbage"})
       => EntryKeys(StoredEntries(storage)) \ EntryKeys(StoredEntries(storage'))
            = OldestStoredKeys(storage, last'.n)]_vars

\* C7: set returns normally; when localStorage rejects the write in the try
\* block and again in the retry, the value under the key is not written.
C7_SetNeverRaises ==
    [][last'.op = "set"
         => /\ ~last'.raised
            /\ (last'.fail1 /\ last'.fail2)
               => /\ ~last'.stored
                  /\ HasKey(storage', KeyOf(last'.id))
                     => /\ HasKey(storage, KeyOf(last'.id))
                        /\ GetItem(storage', KeyOf(last'.id))
                             = GetItem(storage, KeyOf(last'.id))]_vars

\* A set whose write was rejected twice returned without storing.
C7_Witness ==
    /\ last.op = "set"
    /\ last.fail1 /\ last.fail2
    /\ ~last.raised
    /\ ~last.stored

\* C8: after clear no key under the cache namespace remains.
C8_ClearRemovesNamespace ==
    last.op = "clear" => NamespaceKeys(storage) = {}

\* C9: no operation adds, changes or deletes a key outside the namespace.
C9_ForeignKeysUntouched ==
    [][\A k \in KeysOf(storage) \cup KeysOf(storage') :
         ~StartsWith(k, CACHE_PREFIX)
         => /\ HasKey(storage, k) /\ HasKey(storage', k)
            /\ GetItem(storage', k) = GetItem(storage, k)]_vars

\* A clear emptied the namespace beside a key of another script.
C9_Witness ==
    /\ last.op = "clear"
    /\ NamespaceKeys(storage) = {}
    /\ \E k \in KeysOf(storage) : ~StartsWith(k, CACHE_PREFIX)
    /\ ops >= 2

\* C10: for an asset id, however often generation is invoked again before it
\* completes (renders of ToolGrid or of ThumbnailGenerator), one Image decode
\* at most is in flight, onThumbnailGenerated is called at most once and
\* ThumbnailCache.set at most once for that id.
C10_OneGenerationPerId ==
    \A id \in ModelIds :
        /\ grid.images[id] <= 1
        /\ grid.callbacks[id] <= 1
        /\ grid.sets[id] <= 1

-----------------------------------------------------------------------------
(* Properties of the grid *)

\* ThumbnailCache.get(id) would return a payload: the entry of id is live.
LiveEntry(store, id, t) == CacheGet(store, id, t).ret # NULL

\* C11: when ToolGrid mounts, every model whose id has a live cache entry
\* gets the cached thumbnail, and no content-URL request and no generation is
\* started for it.
C11_CachedNoFetch ==
    [][(~grid.mounted /\ grid'.mounted)
         => \A id \in ModelIds :
               LiveEntry(storage, id, now)
               => /\ grid'.thumbnails[id] = CacheGet(storage, id, now).ret
                  /\ grid'.fetching[id] = 0
                  /\ grid'.decodes[id] = 0]_vars

\* C12: at any time at most one content-URL request is outstanding per id.
C12_OneRequestPerId ==
    \A id \in ModelIds : grid.fetching[id] <= 1

\* C13: when the deletion of a model succeeds, right after handleDelete
\* neither the cache, nor thumbnails, nor loadingUrls holds its id.
C13_DeleteClearsId ==
    [][\A id \in ModelIds :
         (id \in grid.models /\ id \notin grid'.models)
         => /\ ~HasKey(storage', KeyOf(id))
            /\ grid'.thumbnails[id] = NoUrl
            /\ ~grid'.loadingUrls[id]]_vars

\* C14: once a model is deleted, no later event (the load of an Image or the
\* response of a URL request in flight at the deletion) writes a cache entry
\* or a thumbnail for its id.
C14_DeletedStaysGone ==
    \A id \in ModelIds :
        (grid.mounted /\ id \notin grid.models)
        => /\ ~HasKey(storage, KeyOf(id))
           /\ grid.thumbnails[id] = NoUrl

-----------------------------------------------------------------------------
(* Further properties of the cache *)

\* C15: with exactly MAX_CACHE_ITEMS entries whose sizes sum to exactly
\* MAX_CACHE_SIZE, a set of a new id evicts at least ceil(101 * 0.2) = 21 of
\* the oldest entries, and leaves at most 100 entries and at most 50 MiB.
C15_FullCacheScenario ==
    [][(/\ last'.op = "set"
        /\ ~HasKey(storage, KeyOf(last'.id))
        /\ Cardinality(NamespaceKeys(storage)) = MAX_CACHE_ITEMS
        /\ StoredSize(storage) = MAX_CACHE_SIZE)
       => /\ OldestStoredKeys(storage, Ceil02(MAX_CACHE_ITEMS + 1))
               \cap KeysOf(storage') = {}
          /\ Cardinality(NamespaceKeys(storage')) <= MAX_CACHE_ITEMS
          /\ StoredSize(storage') <= MAX_CACHE_SIZE]_vars

\* C16: a get that reads a value JSON.parse cannot parse returns null and
\* deletes the key.
C16_GetDeletesCorrupt ==
    [][(/\ last'.op = "get"
        /\ HasKey(storage, KeyOf(last'.id))
        /\ JSONparseThrows(GetItem(storage, KeyOf(last'.id))))
       => /\ last'.ret = NULL
          /\ ~HasKey(storage', KeyOf(last'.id))]_vars

\* C17: no public operation of ThumbnailCache raises to its caller, whatever
\* is stored under the namespace.
C17_NothingRaises ==
    last.op \in {"set", "get", "remove", "has", "getStats", "getCacheSize",
                 "cleanup", "clear"}
    => ~last.raised

\* C20: getStats and getCacheSize leave every key and value as they were and
\* return the number of the entries under the namespace and the sum of their
\* recorded sizes.
C20_StatsReadOnly ==
    [][(last'.op \in {"getStats", "getCacheSize"})
       => /\ storage' = storage
          /\ ~last'.raised
          /\ last'.op = "getStats" => last'.n = Len(StoredEntries(storage))
          /\ last'.op = "getCacheSize" => last'.n = StoredSize(storage)]_vars

-----------------------------------------------------------------------------
(* Properties of generation *)

\* C18: once the generation of an id has failed (img.onerror), no further
\* decode is started for it by later renders of the grid.
C18_NoRetryAfterFailure ==
    [][\A id \in ModelIds :
         grid.failed[id] => grid'.decodes[id] = grid.decodes[id]]_vars

\* The value stored for id is new or has changed in this step.
EntryWritten(id) ==
    /\ HasKey(storage', KeyOf(id))
    /\ HasKey(storage, KeyOf(id))
       => GetItem(storage', KeyOf(id)) # GetItem(storage, KeyOf(id))

-----------------------------------------------------------------------------
(* Eviction and enumeration *)

\* What cleanupIfNeeded tests: the sizes of the entries it lists sum to more
\* than MAX_CACHE_SIZE, or there are more than MAX_CACHE_ITEMS of them.
OverThreshold(entries) ==
    SumSizes(entries) > MAX_CACHE_SIZE \/ Len(entries) > MAX_CACHE_ITEMS

\* The keys of the stored entries, the key k apart.
StoredKeysBut(store, k) == EntryKeys(StoredEntries(store)) \ {k}

\* The keys of the max(count - MAX_CACHE_ITEMS + 10, ceil(count * 0.2)) oldest
\* of the listed entries.
CapacityEvictions(entries) ==
    OldestKeys(entries, Max(Len(entries) - MAX_CACHE_ITEMS + 10, Ceil02(Len(entries))))

\* C21: when the capacity check of a set lists the count stored entries and
\* finds them over a threshold, the entries gone after the set (the key
\* written apart) are exactly the max(count - 100 + 10, ceil(count * 0.2))
\* oldest ones, and at most 90 entries besides the written one remain.
C21_CapacityCheckEvicts ==
    [][(/\ last'.op = "set"
        /\ last'.writes = 1 /\ last'.stored
        /\ ~HasNullEntry(GetAllEntries(storage).entries)
        /\ GetAllEntries(storage).entries = StoredEntries(storage)
        /\ OverThreshold(GetAllEntries(storage).entries))
       => /\ StoredKeysBut(storage, KeyOf(last'.id))
               \ StoredKeysBut(storage', KeyOf(last'.id))
             = CapacityEvictions(GetAllEntries(storage).entries) \ {KeyOf(last'.id)}
          /\ Cardinality(StoredKeysBut(storage', KeyOf(last'.id)))
               <= MAX_CACHE_ITEMS - 10]_vars

\* C22: when setItem throws in the try block of set, cleanup(10) runs once
\* and removes the 10 oldest of the entries stored at that point (all of them
\* if fewer), setItem is called once more and no further time, and an
\* accepted retry leaves the entry stored.
C22_OneEvictionOneRetry ==
    [][(last'.op = "set" /\ last'.fail1 /\ last'.writes = 2)
       => /\ last'.retries = 1
          /\ StoredKeysBut(CleanupIfNeeded(storage).store, KeyOf(last'.id))
               \ StoredKeysBut(storage', KeyOf(last'.id))
             = OldestStoredKeys(CleanupIfNeeded(storage).store, RetryCleanupCount)
                 \ {KeyOf(last'.id)}
          /\ ~last'.fail2
             => /\ last'.stored
                /\ HasEntry(storage', last'.id)
                /\ EntryOf(storage', last'.id).dataUrl = last'.ret]_vars

\* localStorage holding the same items, enumerated in the order p.
Enumerated(store, p) == [i \in 1..Len(store) |-> store[p[i]]]

\* Every value under the namespace is a stored entry.
OnlyEntries(store) ==
    \A i \in 1..Len(store) :
        StartsWith(store[i].key, CACHE_PREFIX) => store[i].value.kind = "json"

\* C23: the entries a cleanup removes depend only on the keys and timestamps
\* stored (ties in timestamp going by key), not on the order in which
\* localStorage enumerates its keys: with the same items enumerated in any
\* other order the same keys are left.
C23_EvictionIgnoresKeyOrder ==
    [][(last'.op = "cleanup" /\ OnlyEntries(storage))
       => \A p \in Permutations(1..Len(storage)) :
             KeysOf(Cleanup(Enumerated(storage, p), last'.n)) = KeysOf(storage')]_vars

\* Every value under the namespace is a stored entry or text that JSON.parse
\* rejects.
EntriesOrGarbage(store) ==
    \A i \in 1..Len(store) :
        StartsWith(store[i].key, CACHE_PREFIX)
        => store[i].value.kind \in {"json", "garbage"}

\* C24: an enumeration of the namespace (here the one of getStats) deletes
\* every unparseable value, counts every stored entry exactly once and no
\* unparseable value, and leaves the stored entries in place.
C24_EnumerationComplete ==
    [][(last'.op = "getStats" /\ EntriesOrGarbage(storage))
       => /\ OnlyEntries(storage')
          /\ last'.n = Len(StoredEntries(storage))
          /\ StoredEntries(storage') = StoredEntries(storage)]_vars

-----------------------------------------------------------------------------
(* The 2D thumbnail *)

Init2D ==
    /\ storage = <<>>
    /\ budget = 0
    /\ now = Now0
    /\ last = NoOp
    /\ ops = 0
    /\ written = [id \in ModelIds |-> None]
    /\ grid = Unmounted
    /\ canvas \in {Undrawn(s[1], s[2]) : s \in ImageSizes}
    /\ scene = NoScene
    /\ server = NoServer

\* img.onload
ImageOnload(ctx) ==
    /\ ~canvas.loaded
    /\ canvas' = DrawImage(canvas, ctx)
    /\ UNCHANGED <<storage, now, last, ops, budget, written, grid, scene, server>>

Next2D == \E ctx \in BOOLEAN : ImageOnload(ctx)

Spec2D == Init2D /\ [][Next2D]_vars

\* The side of the canvas as a Number, and the larger side drawn.
Side == FromInt(CanvasSize)

LargerSide(c) == MathMax(c.scaledWidth, c.scaledHeight)

\* C25 as claimed: the image is drawn no wider and no higher than the canvas,
\* its larger side is exactly 400, and it is centred (no offset negative);
\* an image of 800x400 is drawn with scale 0.5 as 400x200 at (0, 100).
C25_ScaledToFit ==
    canvas.drawn
    => /\ ~Less(Side, canvas.scaledWidth)
       /\ ~Less(Side, canvas.scaledHeight)
       /\ LargerSide(canvas) = Side
       /\ ~canvas.x.neg /\ ~canvas.y.neg
       /\ (canvas.w = 2 * CanvasSize /\ canvas.h = CanvasSize)
          => /\ canvas.scale = Divide(1, 2)
             /\ canvas.scaledWidth = Side
             /\ canvas.scaledHeight = FromInt(200)
             /\ canvas.x = Zero
             /\ canvas.y = FromInt(100)

\* C25 as amended: the larger side drawn is 400 up to the rounding of the
\* two floating-point operations, that is 400 or one of its two neighbouring
\* doubles, so the image can overhang the canvas by one unit in the last
\* place and an offset can be negative by half of that; an image of 800x400
\* is drawn with scale 0.5 as exactly 400x200 at (0, 100).
C25_ScaledToFitRounded ==
    canvas.drawn
    => /\ Abs(Minus(CanvasSize, LargerSide(canvas))) \in {Zero, Ulp(Side)}
       /\ canvas.x.neg => canvas.x = [Half(Ulp(Side)) EXCEPT !.neg = TRUE]
       /\ canvas.y.neg => canvas.y = [Half(Ulp(Side)) EXCEPT !.neg = TRUE]
       /\ (canvas.w = 2 * CanvasSize /\ canvas.h = CanvasSize)
          => /\ canvas.scale = Divide(1, 2)
             /\ canvas.scaledWidth = Side
             /\ canvas.scaledHeight = FromInt(200)
             /\ canvas.x = Zero
             /\ canvas.y = FromInt(100)

\* An image was drawn wider than the canvas, at a negative offset.
C25_Witness ==
    /\ canvas.drawn
    /\ canvas.w > canvas.h
    /\ Less(Side, canvas.scaledWidth)
    /\ canvas.x.neg

-----------------------------------------------------------------------------
(* The 3D thumbnail *)

Init3D ==
    /\ storage = <<>>
    /\ budget = 0
    /\ now = Now0
    /\ last = NoOp
    /\ ops = 0
    /\ written = [id \in ModelIds |-> None]
    /\ grid = Unmounted
    /\ canvas = NoCanvas
    /\ scene \in {Loading(m) : m \in Scenes3D}
    /\ server = NoServer

Others3D == <<storage, now, last, ops, budget, written, grid, canvas, server>>

\* useGLTF(url) has the scene: Model3D renders, <primitive> is mounted and
\* the effect of Model3D runs for the first time.
GltfLoaded ==
    /\ scene.status = "loading"
    /\ scene' = Model3DEffect([scene EXCEPT !.status = "loaded"])
    /\ UNCHANGED Others3D

\* useGLTF(url) throws: the file cannot be loaded or parsed.
GltfFailed ==
    /\ scene.status = "loading"
    /\ scene' = [scene EXCEPT !.status = "failed"]
    /\ UNCHANGED Others3D

TimerDue(s) == s.timers # <<>> /\ s.timers[NextTimer(s)].due <= s.clock

\* A due timer fires.
TimerFires(ok) ==
    /\ TimerDue(scene)
    /\ scene' = IF scene.timers[NextTimer(scene)].kind = "ready"
                THEN OnReady(WithoutTimer(scene, NextTimer(scene)))
                ELSE OnCaptureTimer(WithoutTimer(scene, NextTimer(scene)),
                                    scene.timers[NextTimer(scene)].captured, ok)
    /\ UNCHANGED Others3D

\* Time passes while no timer is due.
Elapse ==
    /\ scene.status # "none"
    /\ ~TimerDue(scene)
    /\ scene.clock + ReadyDelay \div 2 <= MaxClock
    /\ scene' = [scene EXCEPT !.clock = scene.clock + ReadyDelay \div 2]
    /\ UNCHANGED Others3D

\* ToolGrid renders: the generator gets a new onThumbnailGenerated, Scene3D
\* a new onCapture.
GeneratorRerender ==
    /\ scene.status # "none"
    /\ scene.rerenders < MaxRerenders
    /\ scene' = Scene3DRender([scene EXCEPT !.rerenders = scene.rerenders + 1])
    /\ UNCHANGED Others3D

Next3D ==
    \/ GltfLoaded
    \/ GltfFailed
    \/ \E ok \in BOOLEAN : TimerFires(ok)
    \/ Elapse
    \/ GeneratorRerender

Spec3D == Init3D /\ [][Next3D]_vars

\* The scene as toDataURL saw it was centred on the origin and scaled to the
\* extent 1.5.
ShotNormalised(s) ==
    /\ RatPlus(RatTimes(s.shot.scale, Rat(s.center, 1)), s.shot.position) = Rat(0, 1)
    /\ RatTimes(s.shot.scale, Rat(s.extent, 1)) = Rat(3, 2)

\* C26: a capture is taken only of a scene that has loaded, has been centred
\* and scaled, whose ready signal came after the settle delay and that
\* gl.render has drawn; without a load there is no capture.
C26_CaptureAfterNormalise ==
    scene.shot.taken
    => /\ scene.status = "loaded"
       /\ scene.shot.normalised >= 1
       /\ scene.shot.ready
       /\ scene.shot.rendered
       /\ scene.clock >= ReadyDelay + CaptureDelay
       /\ ShotNormalised(scene)

-----------------------------------------------------------------------------
(* Properties of failures *)

\* What the grid shows and the cache holds for the ids other than id is the
\* same after the step as before, and the grid is still there.
OthersUntouched(id) ==
    /\ ~grid'.crashed
    /\ \A other \in ModelIds \ {id} :
          /\ grid'.thumbnails[other] = grid.thumbnails[other]
          /\ grid'.loadingUrls[other] = grid.loadingUrls[other]
          /\ HasKey(storage', KeyOf(other)) = HasKey(storage, KeyOf(other))
          /\ HasKey(storage, KeyOf(other))
             => GetItem(storage', KeyOf(other)) = GetItem(storage, KeyOf(other))

\* C27: a failed request for the content URL of an id, and a failed
\* generation for it (the image or the scene cannot be loaded), leave the
\* grid mounted and the thumbnails, loadingUrls and cache entries of every
\* other id as they were.
C27_FailureIsLocal ==
    [][\A id \in ModelIds :
         (FetchResolve(id, FALSE) \/ ImageError(id) \/ GltfError(id))
         => OthersUntouched(id)]_vars

-----------------------------------------------------------------------------
(* Properties of reads *)

\* C28: a get or has of an entry that has not expired leaves every key and
\* value of localStorage as it was (the timestamp of the entry included, so
\* the order of eviction is the order of insertion), and get returns its
\* payload.
C28_ReadsLeaveStore ==
    [][(/\ last'.op \in {"get", "has"}
        /\ HasEntry(storage, last'.id)
        /\ now - EntryOf(storage, last'.id).timestamp <= maxAge)
       => /\ storage' = storage
          /\ last'.op = "get" => last'.ret = EntryOf(storage, last'.id).dataUrl]_vars

\* A get returned an entry written earlier, next to another entry, and the
\* entry still has the timestamp of its set.
C28_Witness ==
    /\ last.op = "get"
    /\ last.note = "hit"
    /\ Len(StoredEntries(storage)) >= 2
    /\ written[last.id].stored
    /\ written[last.id].at < now
    /\ EntryOf(storage, last.id).timestamp = written[last.id].at

-----------------------------------------------------------------------------
(* The grid under fairness *)

\* The grid left alone after its mount: only the responses and the image
\* events happen, and each request and each Image in flight is answered at
\* some time, with success or not.
InitGridFair == InitWith(GridStores, MaxFairSteps)

Completion ==
    \/ \E id \in ModelIds, ok \in BOOLEAN : FetchResolve(id, ok)
    \/ \E id \in ModelIds, ctx, f1, f2, first \in BOOLEAN :
          (f2 => f1) /\ ImageLoad(id, ctx, f1, f2, first)
    \/ \E id \in ModelIds : ImageError(id)

NextGridFair == GridMount \/ Completion

SpecGridFair ==
    /\ InitGridFair
    /\ [][NextGridFair]_vars
    /\ WF_vars(GridMount)
    /\ WF_vars(Completion)

\* The tile of id shows the loading indicator: no thumbnail, and
\* loadingUrls[id] set.
LoadingIndicator(id) ==
    /\ grid.mounted
    /\ id \in grid.models
    /\ grid.thumbnails[id] = NoUrl
    /\ grid.loadingUrls[id]

\* The step budget is never used up: what is in flight can always complete.
BudgetNotReached == ops < budget

\* C29: with every request and every generation completing at some time, a
\* tile that shows the loading indicator stops showing it at some time.
C29_IndicatorStops ==
    \A id \in ModelIds : LoadingIndicator(id) ~> ~LoadingIndicator(id)

-----------------------------------------------------------------------------
(* The server *)

\* The store when the requests arrive: the record of group_1, and model_1 in
\* one of the groups or not stored.
InitServer ==
    /\ storage = <<>>
    /\ budget = 0
    /\ now = Now0
    /\ last = NoOp
    /\ ops = 0
    /\ written = [id \in ModelIds |-> None]
    /\ grid = Unmounted
    /\ canvas = NoCanvas
    /\ scene = NoScene
    /\ server \in {ServerWith({StoredGroup},
                              [k \in ModelKeys |-> IF k = "model_1" THEN g ELSE Absent]) :
                     g \in GroupIds \cup {Absent}}

OthersServer == <<storage, now, last, ops, budget, written, grid, canvas, scene>>

\* The handlers run on one event loop: each step is the code of one handler
\* from one await to the next.
DeleteGroup(groupId) ==
    /\ server.del.pc = "idle"
    /\ server' = DeleteGroupCalled(server, groupId)
    /\ UNCHANGED OthersServer

DeleteGroupResume ==
    /\ server.del.pc \in {"get", "list", "loop"}
    /\ server' = CASE server.del.pc = "get" -> DeleteGroupGot(server)
                   [] server.del.pc = "list" -> DeleteGroupListed(server)
                   [] server.del.pc = "loop" -> DeleteGroupStep(server)
    /\ UNCHANGED OthersServer

Upload(groupId) ==
    /\ server.up.pc = "idle"
    /\ server' = UploadCalled(server, groupId)
    /\ UNCHANGED OthersServer

UploadResume(ok) ==
    /\ server.up.pc \in {"store", "set"}
    /\ server' = IF server.up.pc = "store" THEN UploadStored(server, ok)
                 ELSE UploadSet(server)
    /\ UNCHANGED OthersServer

MoveToGroup(modelId, groupId) ==
    /\ server.mv.pc = "idle"
    /\ server' = MoveCalled(server, modelId, groupId)
    /\ UNCHANGED OthersServer

MoveToGroupResume ==
    /\ server.mv.pc \in {"get", "set"}
    /\ server' = IF server.mv.pc = "get" THEN MoveGot(server) ELSE MoveSet(server)
    /\ UNCHANGED OthersServer

NextServer ==
    \/ \E g \in GroupIds : DeleteGroup(g)
    \/ DeleteGroupResume
    \/ \E g \in GroupIds : Upload(g)
    \/ \E ok \in BOOLEAN : UploadResume(ok)
    \/ \E k \in ModelKeys, g \in GroupIds : MoveToGroup(k, g)
    \/ MoveToGroupResume

SpecServer == InitServer /\ [][NextServer]_vars

\* C30: a delete-group request for 'default' is refused and removes nothing;
\* once a delete-group request has answered with success, no stored model
\* has the groupId of the deleted group, whatever upload and move-to-group
\* requests ran between its awaits.
C30_DeletedGroupHasNoModels ==
    /\ server.del.groupId = DefaultGroup
       => server.del.status # 200 /\ StoredGroup \in server.groups
    /\ server.del.status = 200
       => \A k \in ModelKeys : server.models[k] # server.del.groupId

====
